---- MODULE Spec2Model ----
(***************************************************************************)
(* Fade-and-persist editor of ephemeral-notes: the editor page             *)
(* (src/pages/editor/[id].tsx), the read-only viewer page                  *)
(* (src/pages/viewer/[id].tsx) and the document store they talk to.        *)
(*                                                                         *)
(* Strings are sequences of one-character strings.  React state is one     *)
(* variable per useState; a handler is one action; a timer callback and a  *)
(* network response are actions of their own, taken in any order.          *)
(***************************************************************************)
EXTENDS Integers, Sequences, FiniteSets, TLC

\* ---------------------------------------------------------------- bounds
MaxLen == 1          \* characters per text block
MaxBlocks == 2       \* blocks in the editor
MaxKeys == 4         \* distinct block keys Draft.js hands out
MaxEpoch == 1        \* whole fade delays the clock may run through
MaxSlot == 2         \* half-second slots observed after each of them
MaxTimers == 2       \* pending debounce timers (current + orphaned)
MaxInFlight == 2     \* save writes in flight
MaxResets == 2       \* reset delays the variant's clock runs through
MaxPushes == 3       \* router.push calls of the route guard in a run

\* ------------------------------------------------------ program constants
timeout == 120000
DebounceWait == 500
IdleResetDelay == 2000
TickInterval == 1000

None == "none"
DbErrorMessage == "dbError.message"
NL == "\n"
Chars == {"a"}
Keys == 1..MaxKeys
DocIds == {"d1"}
Users == {"u1"}
Untitled == <<"U", "n", "t", "i", "t", "l", "e", "d", " ",
              "D", "o", "c", "u", "m", "e", "n", "t">>
TitleInputs == {<<" ">>, <<"t", " ">>}
Instants == {e * timeout + s * DebounceWait : e \in 0..MaxEpoch, s \in 0..MaxSlot}

\* rows of the documents table
Row(t, c, e) ==
  [present |-> TRUE, owner |-> "u1", title |-> t, content |-> c,
   is_editable |-> e]

\* rows a document starts a run with
Rows == {Row(<<>>, <<>>, TRUE), Row(<<"s">>, <<"p">>, TRUE),
         Row(<<"s">>, <<"p">>, FALSE)}

\* a row of another account
ForeignRow == [Row(<<"s">>, <<"p">>, TRUE) EXCEPT !.owner = "u2"]

\* what a select yields when no row matches
NoRow ==
  [present |-> FALSE, owner |-> None, title |-> <<>>, content |-> <<>>,
   is_editable |-> FALSE]

\* ------------------------------------------------------------ pure helpers
RECURSIVE TrimLeft(_)
TrimLeft(s) == IF s # <<>> /\ Head(s) = " " THEN TrimLeft(Tail(s)) ELSE s

RECURSIVE TrimRight(_)
TrimRight(s) ==
  IF s # <<>> /\ s[Len(s)] = " " THEN TrimRight(SubSeq(s, 1, Len(s) - 1)) ELSE s

\* String.prototype.trim
trim(s) == TrimRight(TrimLeft(s))

\* titleToSave.trim() || "Untitled Document"
titleOrUntitled(s) == IF trim(s) = <<>> THEN Untitled ELSE trim(s)

\* ContentState.getPlainText(delimiter): block texts joined by the delimiter
RECURSIVE getPlainText(_, _)
getPlainText(es, sep) ==
  IF es = <<>> THEN <<>>
  ELSE IF Len(es) = 1 THEN es[1].text
  ELSE es[1].text \o sep \o getPlainText(Tail(es), sep)

\* a combination that always puts the separator
synthesizeJoin(p, v) == p \o <<NL>> \o v

\* a synthesis that keeps the visible text only
synthesizeVisibleOnly(p, v) == v

\* steps 2-3 of handleEditorChange: the combined content
synthesize(p, v) ==
  IF p # <<>> /\ v # <<>> THEN p \o <<NL>> \o v ELSE p \o v

\* ------------------------------------------------------------------ state
VARIABLES
  now,                \* wall clock, ms (new Date().getTime())
  store,              \* documents table: DocIds -> row (NoRow when absent)
  page,               \* mounted page: "editor", "viewer", "dashboard" or
                      \* "away"
  redirect,           \* target of a router.replace that has not completed
  documentId,         \* router.query.id
  user,               \* useAuth().user
  blocks,             \* Map key -> [text, timestamp], in insertion order
  editorState,        \* blocks of the Draft.js content, in document order
  initialContent,
  persistentContent,
  title,
  isEditable,
  loading,
  error,
  saveStatus,
  isTitleEditing,
  originalTitle,
  publishing,
  isConfirmModalOpen,
  decayDue,           \* firing times of the armed decay interval (none or one)
  saveTimers,         \* pending setTimeout callbacks of debounce
  fetches,            \* editor selects in flight
  saves,              \* content/title updates in flight, in dispatch order;
                      \* late marks one whose successor has been answered
  publishes,          \* is_editable updates in flight
  vTitle,             \* viewer page state
  vContent,
  vLoading,
  vError,
  vFetches,           \* viewer selects in flight
  vShown,             \* document whose row the viewer stored, or None
  documents,          \* dashboard page state: ids of the listed documents
  dLoading,
  dError,
  dIsConfirmModalOpen,
  deletingDocId,
  dFetches,           \* dashboard selects in flight
  deletes,            \* deletes in flight
  titleWrites,        \* title-saving editor: title updates in flight
  statusResets,       \* title-saving editor: armed setTimeout(idle) timers
  pathname,           \* router.pathname, as its path segments
  authLoading,        \* useAuth().loading
  pushed,             \* target of a router.push that has not completed
  guardLog            \* history: the router.push calls of the route guard

envVars == <<now, store, page, redirect, documentId, user>>
textVars == <<blocks, editorState, initialContent, persistentContent>>
titleVars == <<title, isTitleEditing, originalTitle>>
flagVars == <<isEditable, loading, error, saveStatus, publishing, isConfirmModalOpen>>
asyncVars == <<decayDue, saveTimers, fetches, saves, publishes>>
viewVars == <<vTitle, vContent, vLoading, vError, vFetches, vShown>>
dashVars == <<documents, dLoading, dError, dIsConfirmModalOpen, deletingDocId,
              dFetches, deletes>>
variantVars == <<titleWrites, statusResets>>
appVars == <<pathname, authLoading, pushed, guardLog>>
vars == <<envVars, textVars, titleVars, flagVars, asyncVars, viewVars,
          dashVars, variantVars, appVars>>

\* ----------------------------------------------------------- small helpers
SeqRemove(s, i) == SubSeq(s, 1, i - 1) \o SubSeq(s, i + 1, Len(s))

KeysOf(s) == {s[i].key : i \in DOMAIN s}

\* a key Draft.js has not handed out to a block still held by the page
FreshKey(used) == CHOOSE k \in Keys \ used : \A j \in Keys \ used : k <= j

\* EditorState.createEmpty(decorator): one empty block with a new key
createEmpty(used) == <<[key |-> FreshKey(used), text |-> <<>>]>>

\* the row a select returns for (id, user_id); NoRow is error PGRST116
SelectOwned(d, u) ==
  IF store[d].present /\ store[d].owner = u THEN store[d] ELSE NoRow

\* the main return of EditorPage is reached (render guards, lines 399-412)
EditorShown ==
  /\ page = "editor"
  /\ ~loading
  /\ ~(error # None /\ ~isTitleEditing)

\* a debounced function whose useCallback dependencies changed is replaced;
\* the timer of the replaced function stays armed
Orphan(ts) == {[t EXCEPT !.cur = FALSE] : t \in ts}

\* timers and requests of an unmounted component: their setState calls are
\* no-ops, everything else they do still happens
Detach(ts) == {[t EXCEPT !.cur = FALSE, !.live = FALSE] : t \in ts}
DetachReq(rs) == {[r EXCEPT !.live = FALSE] : r \in rs}
DetachSeq(rs) == [i \in DOMAIN rs |-> [rs[i] EXCEPT !.live = FALSE]]

\* debounce (lines 22-35): the returned function cancels the pending timer of
\* this debounced function and arms a new one with the latest arguments.  The
\* callback closes over documentId, user and isEditable of the render that
\* created it (useCallback dependencies, line 245).
debounce(ts, content, titleArg) ==
  {t \in ts : ~t.cur} \cup
    {[doc |-> documentId, usr |-> user, editable |-> isEditable,
      content |-> content, title |-> titleArg,
      due |-> now + DebounceWait, cur |-> TRUE, live |-> TRUE]}

\* ---------------------------------------------------------- initial state
\* the route guard of _app is modelled apart from the pages: the page
\* specifications keep it in this state
AppIdle ==
  /\ pathname = <<>>
  /\ authLoading = FALSE
  /\ pushed = None
  /\ guardLog = <<>>

\* useState initialisers of EditorPage (lines 79-94); also the state an
\* unmounted editor is given, since React discards it
EditorFresh ==
  /\ blocks' = <<>>
  /\ editorState' = createEmpty({})
  /\ initialContent' = <<>>
  /\ persistentContent' = <<>>
  /\ title' = <<>>
  /\ isEditable' = TRUE
  /\ error' = None
  /\ isTitleEditing' = FALSE
  /\ originalTitle' = <<>>
  /\ publishing' = FALSE
  /\ isConfirmModalOpen' = FALSE

\* useState initialisers of ViewerPage (viewer lines 12-15)
ViewerFresh ==
  /\ vTitle' = <<>>
  /\ vContent' = <<>>
  /\ vError' = None
  /\ vShown' = None


\* the state of a Dashboard that is not mounted
DashboardIdle ==
  /\ documents = {}
  /\ dLoading = TRUE
  /\ dError = None
  /\ dIsConfirmModalOpen = FALSE
  /\ deletingDocId = None
  /\ dFetches = {}
  /\ deletes = {}

\* a hard load of /editor/<id>: the first render has no router query yet
Init ==
  /\ now = 0
  /\ store \in [DocIds -> Rows \cup {NoRow, ForeignRow}]
  /\ page \in {"editor", "viewer"}
  /\ redirect = None
  /\ documentId = None
  /\ user \in Users \cup {None}
  /\ blocks = <<>>
  /\ editorState = createEmpty({})
  /\ initialContent = <<>>
  /\ persistentContent = <<>>
  /\ title = <<>>
  /\ isEditable = TRUE
  /\ loading = TRUE
  /\ error = None
  /\ saveStatus = "saved"
  /\ isTitleEditing = FALSE
  /\ originalTitle = <<>>
  /\ publishing = FALSE
  /\ isConfirmModalOpen = FALSE
  /\ decayDue = {TickInterval}
  /\ saveTimers = {}
  /\ fetches = {}
  /\ saves = <<>>
  /\ publishes = {}
  /\ vTitle = <<>>
  /\ vContent = <<>>
  /\ vLoading = TRUE
  /\ vError = None
  /\ vFetches = {}
  /\ vShown = None
  /\ DashboardIdle
  /\ titleWrites = <<>>
  /\ statusResets = {}
  /\ AppIdle

\* ------------------------------------------------------- editor: loading
\* the data-fetching effect up to its await (lines 97-117), run for router
\* query d and user u on a component whose loading, saveStatus and error are
\* l0, s0, e0
fetchDocument(d, u, l0, s0, e0) ==
  IF d = None \/ u = None
  THEN /\ loading' = IF d # None THEN FALSE ELSE l0
       /\ saveStatus' = s0
       /\ error' = e0
       /\ fetches' = fetches
  ELSE /\ loading' = TRUE
       /\ saveStatus' = "saved"
       /\ error' = None
       /\ fetches' = fetches \cup {[doc |-> d, usr |-> u, live |-> TRUE,
                                    row |-> SelectOwned(d, u)]}

\* useAuth().user becomes u while the editor is mounted: the fetch effect
\* (user?.id) and useCallback (user) depend on it
authChange(u) ==
  /\ page = "editor"
  /\ user' = u
  /\ fetchDocument(documentId, u, loading, saveStatus, error)
  /\ saveTimers' = Orphan(saveTimers)
  /\ UNCHANGED <<now, store, page, redirect, documentId, textVars, titleVars,
                 isEditable, publishing, isConfirmModalOpen, decayDue, saves,
                 publishes, viewVars, dashVars, variantVars, appVars>>

\* the identity provider signs a user in
SignIn == user = None /\ \E u \in Users : authChange(u)

\* the identity provider signs the user out
SignOut == user # None /\ authChange(None)

\* the rows a select in flight may answer with: the database reads the row
\* at some moment between the request and its answer
FetchReads(f) == {f.row, SelectOwned(f.doc, f.usr)}

\* the select answers with data (lines 119-162).  outcome "ok" is a row,
\* "PGRST116" is no row for (id, user_id), "dberror" is any other failure.
fetchResponse(f, outcome, data) ==
  LET row == outcome = "ok"
      toViewer == row /\ ~data.is_editable
      adopt == row /\ data.is_editable /\ f.live
  IN
  /\ f \in fetches
  /\ (outcome = "ok") => data.present
  /\ (outcome = "PGRST116") => ~data.present
  /\ fetches' = fetches \ {f}
  /\ redirect' = IF toViewer THEN "viewer" ELSE redirect
  /\ title' = IF adopt
              THEN (IF data.title = <<>> THEN Untitled ELSE data.title)
              ELSE title
  /\ originalTitle' = IF adopt
                      THEN (IF data.title = <<>> THEN Untitled ELSE data.title)
                      ELSE originalTitle
  /\ initialContent' = IF adopt THEN data.content ELSE initialContent
  /\ persistentContent' = IF adopt THEN data.content ELSE persistentContent
  /\ isEditable' = IF adopt THEN TRUE ELSE isEditable
  /\ editorState' = IF adopt
                    THEN createEmpty(KeysOf(editorState) \cup KeysOf(blocks))
                    ELSE editorState
  /\ error' = IF f.live /\ outcome = "PGRST116"
              THEN "Document not found or access denied."
              ELSE IF f.live /\ outcome = "dberror"
              THEN DbErrorMessage
              ELSE error
  /\ loading' = IF f.live /\ page = "editor" THEN FALSE ELSE loading
  /\ saveTimers' = IF isEditable' # isEditable THEN Orphan(saveTimers)
                   ELSE saveTimers
  /\ decayDue' = IF adopt THEN {now + TickInterval} ELSE decayDue
  /\ UNCHANGED <<now, store, page, documentId, user, blocks, isTitleEditing,
                 saveStatus, publishing, isConfirmModalOpen, saves, publishes,
                 viewVars, dashVars, variantVars, appVars>>

FetchResponse ==
  \E f \in fetches, outcome \in {"ok", "PGRST116", "dberror"} :
    \E data \in FetchReads(f) : fetchResponse(f, outcome, data)

\* ------------------------------------------------------ editor: body text
\* Map.has and Map.get on the block map
BlockHas(bs, k) == \E i \in DOMAIN bs : bs[i].key = k
BlockGet(bs, k) == bs[CHOOSE i \in DOMAIN bs : bs[i].key = k]

\* a tracker that stamps every block of the new content
trackBlocksRestamp(bs, es, t) ==
  [i \in DOMAIN es |-> [key |-> es[i].key, text |-> es[i].text, ts |-> t]]

\* a tracker that keeps the stamp of a tracked block whose text changed
trackBlocksKeepStamp(bs, es, t) ==
  [i \in DOMAIN es |->
     [key |-> es[i].key, text |-> es[i].text,
      ts |-> IF BlockHas(bs, es[i].key) THEN BlockGet(bs, es[i].key).ts
             ELSE t]]

\* step 1 of handleEditorChange (lines 251-269): the new block map
trackBlocks(bs, es, t) ==
  [i \in DOMAIN es |->
     IF BlockHas(bs, es[i].key) /\ BlockGet(bs, es[i].key).text = es[i].text
     THEN BlockGet(bs, es[i].key)
     ELSE [key |-> es[i].key, text |-> es[i].text, ts |-> t]]

\* a change handler that also moves the persisted baseline to what it saves
handleEditorChangeRebase(es) ==
  LET combinedContent == synthesize(initialContent, getPlainText(es, <<NL>>))
  IN
  /\ blocks' = trackBlocks(blocks, es, now)
  /\ editorState' = es
  /\ persistentContent' = combinedContent
  /\ initialContent' = combinedContent
  /\ saveStatus' = IF isEditable /\ combinedContent # initialContent
                      /\ saveStatus = "saved"
                   THEN "saving" ELSE saveStatus
  /\ saveTimers' = IF isEditable
                   THEN debounce(saveTimers, combinedContent, title)
                   ELSE saveTimers
  /\ Cardinality(saveTimers') <= MaxTimers
  /\ decayDue' = {now + TickInterval}
  /\ UNCHANGED <<envVars, titleVars, isEditable, loading,
                 error, publishing, isConfirmModalOpen, fetches, saves,
                 publishes, viewVars, dashVars, variantVars, appVars>>

\* a change handler that schedules the content of the previous render
handleEditorChangeStale(es) ==
  LET combinedContent == synthesize(initialContent, getPlainText(es, <<NL>>))
  IN
  /\ blocks' = trackBlocks(blocks, es, now)
  /\ editorState' = es
  /\ persistentContent' = combinedContent
  /\ saveStatus' = IF isEditable /\ combinedContent # initialContent
                      /\ saveStatus = "saved"
                   THEN "saving" ELSE saveStatus
  /\ saveTimers' = IF isEditable
                   THEN debounce(saveTimers, persistentContent, title)
                   ELSE saveTimers
  /\ Cardinality(saveTimers') <= MaxTimers
  /\ decayDue' = {now + TickInterval}
  /\ UNCHANGED <<envVars, initialContent, titleVars, isEditable, loading,
                 error, publishing, isConfirmModalOpen, fetches, saves,
                 publishes, viewVars, dashVars, variantVars, appVars>>

\* a change handler that leaves the status to the debounced save
handleEditorChangeLazy(es) ==
  LET combinedContent == synthesize(initialContent, getPlainText(es, <<NL>>))
  IN
  /\ blocks' = trackBlocks(blocks, es, now)
  /\ editorState' = es
  /\ persistentContent' = combinedContent
  /\ saveStatus' = saveStatus
  /\ saveTimers' = IF isEditable
                   THEN debounce(saveTimers, combinedContent, title)
                   ELSE saveTimers
  /\ Cardinality(saveTimers') <= MaxTimers
  /\ decayDue' = {now + TickInterval}
  /\ UNCHANGED <<envVars, initialContent, titleVars, isEditable, loading,
                 error, publishing, isConfirmModalOpen, fetches, saves,
                 publishes, viewVars, dashVars, variantVars, appVars>>

\* handleEditorChange (lines 249-304) called by Draft.js with content es
handleEditorChange(es) ==
  LET combinedContent == synthesize(initialContent, getPlainText(es, <<NL>>))
  IN
  /\ blocks' = trackBlocks(blocks, es, now)
  /\ editorState' = es
  /\ persistentContent' = combinedContent
  /\ saveStatus' = IF isEditable /\ combinedContent # initialContent
                      /\ saveStatus = "saved"
                   THEN "saving" ELSE saveStatus
  /\ saveTimers' = IF isEditable
                   THEN debounce(saveTimers, combinedContent, title)
                   ELSE saveTimers
  /\ Cardinality(saveTimers') <= MaxTimers
  /\ decayDue' = {now + TickInterval}
  /\ UNCHANGED <<envVars, initialContent, titleVars, isEditable, loading,
                 error, publishing, isConfirmModalOpen, fetches, saves,
                 publishes, viewVars, dashVars, variantVars, appVars>>

\* the body accepts input: it is rendered, not read-only (line 503), the
\* title input does not hold the focus and no modal covers the page
BodyFocus ==
  EditorShown /\ isEditable /\ ~isTitleEditing /\ ~isConfirmModalOpen

\* contents Draft.js derives from the current one for a keystroke
TypeChar(es, i, c) == [es EXCEPT ![i].text = @ \o <<c>>]
Backspace(es, i) == [es EXCEPT ![i].text = SubSeq(@, 1, Len(@) - 1)]
SplitBlock(es) ==
  Append(es, [key |-> FreshKey(KeysOf(es) \cup KeysOf(blocks)), text |-> <<>>])

\* the user types a character
TypeEdit ==
  /\ BodyFocus
  /\ \E i \in DOMAIN editorState, c \in Chars :
       /\ Len(editorState[i].text) < MaxLen
       /\ handleEditorChange(TypeChar(editorState, i, c))

\* the user presses Enter at the end of the text
SplitEdit ==
  /\ BodyFocus
  /\ Len(editorState) < MaxBlocks
  /\ handleEditorChange(SplitBlock(editorState))

\* the user deletes a character
DeleteEdit ==
  /\ BodyFocus
  /\ \E i \in DOMAIN editorState :
       /\ editorState[i].text # <<>>
       /\ handleEditorChange(Backspace(editorState, i))

\* the user moves the caret: onChange with the same content
SelectEdit ==
  /\ BodyFocus
  /\ handleEditorChange(editorState)

\* ---------------------------------------------------------- editor: decay
\* a pass that spares the blocks whose age is exactly the fade delay
decayBlocksStrict(bs, t) ==
  [i \in DOMAIN bs |->
     IF t - bs[i].ts > timeout THEN [bs[i] EXCEPT !.text = <<>>] ELSE bs[i]]

\* a pass that stamps the blocks it clears
decayBlocksRestamp(bs, t) ==
  [i \in DOMAIN bs |->
     IF t - bs[i].ts >= timeout
     THEN [bs[i] EXCEPT !.text = <<>>, !.ts = t] ELSE bs[i]]

\* the forEach of the interval callback (lines 173-183)
decayBlocks(bs, t) ==
  [i \in DOMAIN bs |->
     IF t - bs[i].ts >= timeout THEN [bs[i] EXCEPT !.text = <<>>] ELSE bs[i]]

shouldUpdate(bs, t) == \E i \in DOMAIN bs : t - bs[i].ts >= timeout

\* a tick that hands the cleared content to the editor's onChange
DecayTickOnChange ==
  /\ \E due \in decayDue : now >= due
  /\ IF shouldUpdate(blocks, now)
     THEN handleEditorChange([i \in DOMAIN blocks |->
                                [key |-> blocks[i].key,
                                 text |-> decayBlocks(blocks, now)[i].text]])
     ELSE /\ decayDue' = {now + TickInterval}
          /\ UNCHANGED <<envVars, textVars, titleVars, flagVars, saveTimers,
                         fetches, saves, publishes, viewVars, dashVars, variantVars, appVars>>

\* the setInterval callback of the decay effect (lines 170-212); the effect
\* is re-run, and the interval re-armed, when blocks or editorState change
DecayTick ==
  /\ \E due \in decayDue : now >= due
  /\ decayDue' = {now + TickInterval}
  /\ IF shouldUpdate(blocks, now)
     THEN /\ blocks' = decayBlocks(blocks, now)
          /\ editorState' = [i \in DOMAIN blocks |->
                               [key |-> blocks[i].key,
                                text |-> decayBlocks(blocks, now)[i].text]]
     ELSE UNCHANGED <<blocks, editorState>>
  /\ UNCHANGED <<envVars, initialContent, persistentContent, titleVars,
                 flagVars, saveTimers, fetches, saves, publishes, viewVars, dashVars, variantVars, appVars>>

\* ----------------------------------------------------------- editor: save
\* the guard of the debounced callback (line 217), on the values it captured
saveGuard(t) == t.doc # None /\ t.usr # None /\ t.editable

\* a debounce timer fires: the callback of saveDocumentDebounced up to its
\* await (lines 216-232)
saveDocumentFire(t) ==
  /\ t \in saveTimers
  /\ now >= t.due
  /\ saveTimers' = saveTimers \ {t}
  /\ IF saveGuard(t)
     THEN /\ Len(saves) < MaxInFlight
          /\ saveStatus' = IF t.live THEN "saving" ELSE saveStatus
          /\ error' = IF t.live THEN None ELSE error
          /\ saves' = Append(saves, [doc |-> t.doc, usr |-> t.usr,
                                     content |-> t.content,
                                     title |-> titleOrUntitled(t.title),
                                     live |-> t.live, late |-> FALSE])
     ELSE UNCHANGED <<saveStatus, error, saves>>
  /\ UNCHANGED <<envVars, textVars, titleVars, isEditable, loading,
                 publishing, isConfirmModalOpen, decayDue, fetches, publishes,
                 viewVars, dashVars, variantVars, appVars>>

SaveFire == \E t \in saveTimers : saveDocumentFire(t)

\* update ... .eq("id", d).eq("user_id", u): rows of another owner or absent
\* rows are left alone, without an error
StoreUpdate(d, u, fields) ==
  IF store[d].present /\ store[d].owner = u
  THEN [store EXCEPT ![d] =
          [k \in DOMAIN store[d] |->
             IF k \in DOMAIN fields THEN fields[k] ELSE store[d][k]]]
  ELSE store

\* history: the saves dispatched before save i are overtaken by its answer
Overtake(ws, i) ==
  [j \in DOMAIN ws |-> IF j < i THEN [ws[j] EXCEPT !.late = TRUE] ELSE ws[j]]

\* an answer that adopts the written title as the baseline whatever the outcome
saveDocumentResponseAdopt(i, ok) ==
  LET w == saves[i] IN
  /\ i \in DOMAIN saves
  /\ saves' = SeqRemove(Overtake(saves, i), i)
  /\ store' = IF ok
              THEN StoreUpdate(w.doc, w.usr,
                               [content |-> w.content, title |-> w.title])
              ELSE store
  /\ saveStatus' = IF ~w.live THEN saveStatus
                   ELSE IF ok THEN "saved" ELSE "error"
  /\ originalTitle' = IF w.live THEN w.title ELSE originalTitle
  /\ error' = IF w.live /\ ~ok THEN "Failed to save document." ELSE error
  /\ UNCHANGED <<now, page, redirect, documentId, user, textVars, title,
                 isTitleEditing, isEditable, loading, publishing,
                 isConfirmModalOpen, decayDue, saveTimers, fetches, publishes,
                 viewVars, dashVars, variantVars, appVars>>

\* the update of save i answers (lines 234-243)
saveDocumentResponse(i, ok) ==
  LET w == saves[i] IN
  /\ i \in DOMAIN saves
  /\ saves' = SeqRemove(Overtake(saves, i), i)
  /\ store' = IF ok
              THEN StoreUpdate(w.doc, w.usr,
                               [content |-> w.content, title |-> w.title])
              ELSE store
  /\ saveStatus' = IF ~w.live THEN saveStatus
                   ELSE IF ok THEN "saved" ELSE "error"
  /\ originalTitle' = IF w.live /\ ok THEN w.title ELSE originalTitle
  /\ error' = IF w.live /\ ~ok THEN "Failed to save document." ELSE error
  /\ UNCHANGED <<now, page, redirect, documentId, user, textVars, title,
                 isTitleEditing, isEditable, loading, publishing,
                 isConfirmModalOpen, decayDue, saveTimers, fetches, publishes,
                 viewVars, dashVars, variantVars, appVars>>

SaveResponse == \E i \in DOMAIN saves, ok \in BOOLEAN : saveDocumentResponse(i, ok)

\* ---------------------------------------------------------- editor: title
\* handleTitleClick (lines 307-313): the <h1> is rendered and clicked
handleTitleClick ==
  /\ EditorShown /\ ~isTitleEditing /\ ~isConfirmModalOpen
  /\ IF isEditable
     THEN /\ originalTitle' = title
          /\ isTitleEditing' = TRUE
     ELSE UNCHANGED <<originalTitle, isTitleEditing>>
  /\ UNCHANGED <<envVars, textVars, title, flagVars, asyncVars, viewVars, dashVars, variantVars, appVars>>

\* handleTitleInputChange (lines 323-331)
handleTitleInputChange(newTitle) ==
  /\ EditorShown /\ isTitleEditing /\ ~isConfirmModalOpen
  /\ title' = newTitle
  /\ saveTimers' = IF isEditable
                   THEN debounce(saveTimers, persistentContent, newTitle)
                   ELSE saveTimers
  /\ Cardinality(saveTimers') <= MaxTimers
  /\ UNCHANGED <<envVars, textVars, isTitleEditing, originalTitle, flagVars,
                 decayDue, fetches, saves, publishes, viewVars, dashVars, variantVars, appVars>>

TitleInput == \E newTitle \in TitleInputs : handleTitleInputChange(newTitle)

\* a commit that keeps the typed title as it is
handleTitleBlurRaw ==
  /\ EditorShown /\ isTitleEditing
  /\ title' = title
  /\ isTitleEditing' = FALSE
  /\ UNCHANGED <<envVars, textVars, originalTitle, flagVars, asyncVars,
                 viewVars, dashVars, variantVars, appVars>>

\* handleTitleBlur (lines 345-352); Enter in handleTitleKeyDown blurs the
\* input (lines 334-338)
handleTitleBlur ==
  /\ EditorShown /\ isTitleEditing
  /\ title' = titleOrUntitled(title)
  /\ isTitleEditing' = FALSE
  /\ UNCHANGED <<envVars, textVars, originalTitle, flagVars, asyncVars,
                 viewVars, dashVars, variantVars, appVars>>

\* Escape in handleTitleKeyDown (lines 339-342)
handleTitleEscape ==
  /\ EditorShown /\ isTitleEditing /\ ~isConfirmModalOpen
  /\ title' = originalTitle
  /\ isTitleEditing' = FALSE
  /\ UNCHANGED <<envVars, textVars, originalTitle, flagVars, asyncVars,
                 viewVars, dashVars, variantVars, appVars>>

\* -------------------------------------------------------- editor: publish
\* the guard of handlePublish (line 357)
publishGuard == isEditable /\ ~publishing /\ saveStatus # "saving"

\* a Publish button that issues the update without the prompt
handlePublishDirect ==
  /\ EditorShown /\ isEditable /\ ~isTitleEditing /\ ~isConfirmModalOpen
  /\ IF publishGuard /\ documentId # None /\ user # None
     THEN /\ publishing' = TRUE
          /\ error' = None
          /\ publishes' = publishes \cup
               {[doc |-> documentId, usr |-> user, live |-> TRUE]}
     ELSE UNCHANGED <<publishing, error, publishes>>
  /\ UNCHANGED <<envVars, textVars, titleVars, isEditable, loading,
                 saveStatus, isConfirmModalOpen, decayDue, saveTimers, fetches,
                 saves, viewVars, dashVars, variantVars, appVars>>

\* handlePublish (lines 355-359): the Publish button is rendered (line 468)
handlePublish ==
  /\ EditorShown /\ isEditable /\ ~isTitleEditing /\ ~isConfirmModalOpen
  /\ isConfirmModalOpen' = IF publishGuard THEN TRUE ELSE isConfirmModalOpen
  /\ UNCHANGED <<envVars, textVars, titleVars, isEditable, loading, error,
                 saveStatus, publishing, asyncVars, viewVars, dashVars, variantVars, appVars>>

\* the guard of confirmPublishAction (line 364)
confirmGuard ==
  documentId # None /\ user # None /\ isEditable /\ ~publishing

\* confirmPublishAction up to its await (lines 362-375)
confirmPublishAction ==
  /\ EditorShown /\ isConfirmModalOpen
  /\ isConfirmModalOpen' = FALSE
  /\ IF confirmGuard
     THEN /\ publishing' = TRUE
          /\ error' = None
          /\ publishes' = publishes \cup
               {[doc |-> documentId, usr |-> user, live |-> TRUE]}
     ELSE UNCHANGED <<publishing, error, publishes>>
  /\ UNCHANGED <<envVars, textVars, titleVars, isEditable, loading,
                 saveStatus, decayDue, saveTimers, fetches, saves, viewVars, dashVars, variantVars, appVars>>

\* cancelPublishAction (lines 394-396)
cancelPublishAction ==
  /\ EditorShown /\ isConfirmModalOpen
  /\ isConfirmModalOpen' = FALSE
  /\ UNCHANGED <<envVars, textVars, titleVars, isEditable, loading, error,
                 saveStatus, publishing, asyncVars, viewVars, dashVars, variantVars, appVars>>

\* an answer handler without the finally block: a failure leaves the flag set
publishResponseNoFinally(p, ok) ==
  /\ p \in publishes
  /\ publishes' = publishes \ {p}
  /\ store' = IF ok THEN StoreUpdate(p.doc, p.usr, [is_editable |-> FALSE])
              ELSE store
  /\ isEditable' = IF p.live /\ ok THEN FALSE ELSE isEditable
  /\ error' = IF p.live /\ ~ok THEN "Failed to publish document." ELSE error
  /\ publishing' = IF p.live /\ ok THEN FALSE ELSE publishing
  /\ saveTimers' = IF isEditable' # isEditable THEN Orphan(saveTimers)
                   ELSE saveTimers
  /\ UNCHANGED <<now, page, redirect, documentId, user, textVars, titleVars,
                 loading, saveStatus, isConfirmModalOpen, decayDue, fetches,
                 saves, viewVars, dashVars, variantVars, appVars>>

\* the is_editable update answers (lines 377-391)
publishResponse(p, ok) ==
  /\ p \in publishes
  /\ publishes' = publishes \ {p}
  /\ store' = IF ok THEN StoreUpdate(p.doc, p.usr, [is_editable |-> FALSE])
              ELSE store
  /\ isEditable' = IF p.live /\ ok THEN FALSE ELSE isEditable
  /\ error' = IF p.live /\ ~ok THEN "Failed to publish document." ELSE error
  /\ publishing' = IF p.live THEN FALSE ELSE publishing
  /\ saveTimers' = IF isEditable' # isEditable THEN Orphan(saveTimers)
                   ELSE saveTimers
  /\ UNCHANGED <<now, page, redirect, documentId, user, textVars, titleVars,
                 loading, saveStatus, isConfirmModalOpen, decayDue, fetches,
                 saves, viewVars, dashVars, variantVars, appVars>>

PublishResponse == \E p \in publishes, ok \in BOOLEAN : publishResponse(p, ok)

\* ----------------------------------------------------------------- viewer
\* the data-fetching effect of ViewerPage up to its await (viewer lines 18-34)
viewerFetchDocument(d, l0, e0) ==
  IF d = None
  THEN /\ vLoading' = l0
       /\ vError' = e0
       /\ vFetches' = vFetches
  ELSE /\ vLoading' = TRUE
       /\ vError' = None
       /\ vFetches' = vFetches \cup {[doc |-> d, live |-> TRUE]}

\* a viewer that stores every row it is given
viewerAdoptsAny(data) == TRUE

\* the row the viewer stores (viewer lines 45-57): an editable document is
\* handed to the editor and nothing of it is kept
viewerAdopts(data) == ~data.is_editable

\* the viewer's select answers (viewer lines 36-70)
viewerFetchResponse(f, outcome) ==
  LET data == store[f.doc]
      row == outcome = "ok"
      adopt == row /\ viewerAdopts(data) /\ f.live
  IN
  /\ f \in vFetches
  /\ (outcome = "ok") => data.present
  /\ (outcome = "PGRST116") => ~data.present
  /\ vFetches' = vFetches \ {f}
  /\ redirect' = IF row /\ data.is_editable = TRUE THEN "editor" ELSE redirect
  /\ vTitle' = IF adopt
               THEN (IF data.title = <<>> THEN Untitled ELSE data.title)
               ELSE vTitle
  /\ vContent' = IF adopt THEN data.content ELSE vContent
  /\ vShown' = IF adopt THEN f.doc ELSE vShown
  /\ vError' = IF f.live /\ outcome = "PGRST116" THEN "Document not found."
               ELSE IF f.live /\ outcome = "dberror" THEN DbErrorMessage
               ELSE vError
  /\ vLoading' = IF f.live /\ page = "viewer" THEN FALSE ELSE vLoading
  /\ UNCHANGED <<now, store, page, documentId, user, textVars, titleVars,
                 flagVars, asyncVars, dashVars, variantVars, appVars>>

ViewerFetchResponse ==
  \E f \in vFetches, outcome \in {"ok", "PGRST116", "dberror"} :
    viewerFetchResponse(f, outcome)

\* ------------------------------------------------------------- navigation
\* the editor unmounts: the cleanup of the decay effect clears the interval
\* (line 211); nothing clears the debounce timer or the requests
EditorUnmount ==
  /\ EditorFresh
  /\ loading' = TRUE
  /\ saveStatus' = "saved"
  /\ decayDue' = {}
  /\ saveTimers' = Detach(saveTimers)
  /\ fetches' = DetachReq(fetches)
  /\ saves' = DetachSeq(saves)
  /\ publishes' = DetachReq(publishes)

\* the editor mounts for router query d: first render and its effects
EditorMount(d) ==
  /\ EditorFresh
  /\ fetchDocument(d, user, TRUE, "saved", None)
  /\ decayDue' = {now + TickInterval}
  /\ UNCHANGED <<saveTimers, saves, publishes>>

ViewerUnmount ==
  /\ ViewerFresh
  /\ vLoading' = TRUE
  /\ vFetches' = DetachReq(vFetches)

ViewerMount(d) ==
  /\ ViewerFresh
  /\ viewerFetchDocument(d, TRUE, None)

\* the route changes from page to target with router query d
Navigate(target, d) ==
  /\ page # target
  /\ page' = target
  /\ documentId' = d
  /\ IF page = "editor" THEN EditorUnmount
     ELSE IF target = "editor" THEN EditorMount(d)
     ELSE UNCHANGED <<textVars, titleVars, flagVars, asyncVars>>
  /\ IF page = "viewer" THEN ViewerUnmount
     ELSE IF target = "viewer" THEN ViewerMount(d)
     ELSE UNCHANGED viewVars
  /\ UNCHANGED <<now, store, user, dashVars, variantVars, appVars>>

\* router.query.id becomes available after the first render of a hard load
RouterReady ==
  /\ documentId = None
  /\ page \in {"editor", "viewer"}
  /\ \E d \in DocIds :
       /\ documentId' = d
       /\ IF page = "editor"
          THEN /\ fetchDocument(d, user, loading, saveStatus, error)
               /\ saveTimers' = Orphan(saveTimers)
               /\ UNCHANGED viewVars
          ELSE /\ viewerFetchDocument(d, vLoading, vError)
               /\ UNCHANGED <<loading, saveStatus, error, saveTimers, fetches,
                              vTitle, vContent, vShown>>
  /\ UNCHANGED <<now, store, page, redirect, user, textVars, titleVars,
                 isEditable, publishing, isConfirmModalOpen, decayDue, saves,
                 publishes, dashVars, variantVars, appVars>>

\* a router.replace issued by a page completes
RedirectComplete ==
  /\ redirect # None
  /\ redirect' = None
  /\ IF page = redirect
     THEN UNCHANGED <<now, store, page, documentId, user, textVars, titleVars,
                      flagVars, asyncVars, viewVars, dashVars, variantVars, appVars>>
     ELSE Navigate(redirect, documentId)

\* the user leaves for another page (dashboard link, route guard)
NavigateAway ==
  /\ page # "away"
  /\ Navigate("away", documentId)
  /\ UNCHANGED redirect

\* -------------------------------------------------------------- dashboard
\* documents the dashboard can list
DashDocs == {"d1", "d2"}

\* rows of the documents table when the dashboard is opened
DashRows == {NoRow, Row(<<"s">>, <<"p">>, TRUE), Row(<<"s">>, <<"p">>, FALSE),
             ForeignRow}

\* a hard load of /dashboard by a signed-in user (the route is protected):
\* first render and the fetchDocuments effect up to its await (lines 25-37)
InitDashboard ==
  /\ now = 0
  /\ store \in [DashDocs -> DashRows]
  /\ page = "dashboard"
  /\ redirect = None
  /\ documentId = None
  /\ user \in Users
  /\ blocks = <<>>
  /\ editorState = createEmpty({})
  /\ initialContent = <<>>
  /\ persistentContent = <<>>
  /\ title = <<>>
  /\ isEditable = TRUE
  /\ loading = TRUE
  /\ error = None
  /\ saveStatus = "saved"
  /\ isTitleEditing = FALSE
  /\ originalTitle = <<>>
  /\ publishing = FALSE
  /\ isConfirmModalOpen = FALSE
  /\ decayDue = {}
  /\ saveTimers = {}
  /\ fetches = {}
  /\ saves = <<>>
  /\ publishes = {}
  /\ vTitle = <<>>
  /\ vContent = <<>>
  /\ vLoading = TRUE
  /\ vError = None
  /\ vFetches = {}
  /\ vShown = None
  /\ documents = {}
  /\ dLoading = TRUE
  /\ dError = None
  /\ dIsConfirmModalOpen = FALSE
  /\ deletingDocId = None
  /\ dFetches = {[usr |-> user]}
  /\ deletes = {}
  /\ titleWrites = <<>>
  /\ statusResets = {}
  /\ AppIdle

\* select ... .eq("user_id", u) of the dashboard (lines 33-37)
SelectList(u) == {d \in DOMAIN store : store[d].present /\ store[d].owner = u}

\* the select of fetchDocuments answers (lines 39-49)
dashFetchResponse(f, ok) ==
  /\ page = "dashboard"
  /\ f \in dFetches
  /\ dFetches' = dFetches \ {f}
  /\ documents' = IF ok THEN SelectList(f.usr) ELSE documents
  /\ dError' = IF ok THEN dError ELSE DbErrorMessage
  /\ dLoading' = FALSE
  /\ UNCHANGED <<envVars, textVars, titleVars, flagVars, asyncVars, viewVars, variantVars, appVars,
                 dIsConfirmModalOpen, deletingDocId, deletes>>

DashFetchResponse == \E f \in dFetches, ok \in BOOLEAN : dashFetchResponse(f, ok)

\* a delete button that deletes at once, without the prompt
handleDeleteClickDirect(docId) ==
  /\ page = "dashboard"
  /\ docId \in documents
  /\ ~dIsConfirmModalOpen
  /\ user # None
  /\ deletingDocId' = docId
  /\ deletes' = deletes \cup {[doc |-> docId, usr |-> user]}
  /\ UNCHANGED <<envVars, textVars, titleVars, flagVars, asyncVars, viewVars, variantVars, appVars,
                 documents, dLoading, dError, dIsConfirmModalOpen, dFetches>>

\* handleDeleteClick (lines 84-87): the delete button of a listed document;
\* the open modal covers the list
handleDeleteClick(docId) ==
  /\ page = "dashboard"
  /\ docId \in documents
  /\ ~dIsConfirmModalOpen
  /\ deletingDocId' = docId
  /\ dIsConfirmModalOpen' = TRUE
  /\ UNCHANGED <<envVars, textVars, titleVars, flagVars, asyncVars, viewVars, variantVars, appVars,
                 documents, dLoading, dError, dFetches, deletes>>

DeleteClick == \E docId \in DashDocs : handleDeleteClick(docId)

\* confirmDeleteAction up to its await (lines 89-101)
confirmDeleteAction ==
  /\ page = "dashboard"
  /\ dIsConfirmModalOpen
  /\ IF deletingDocId = None \/ user = None
     THEN UNCHANGED <<dIsConfirmModalOpen, dError, deletes>>
     ELSE /\ dIsConfirmModalOpen' = FALSE
          /\ dError' = None
          /\ deletes' = deletes \cup {[doc |-> deletingDocId, usr |-> user]}
  /\ UNCHANGED <<envVars, textVars, titleVars, flagVars, asyncVars, viewVars, variantVars, appVars,
                 documents, dLoading, deletingDocId, dFetches>>

\* cancelDeleteAction (lines 119-122): Cancel button or click on the overlay
cancelDeleteAction ==
  /\ page = "dashboard"
  /\ dIsConfirmModalOpen
  /\ deletingDocId' = None
  /\ dIsConfirmModalOpen' = FALSE
  /\ UNCHANGED <<envVars, textVars, titleVars, flagVars, asyncVars, viewVars, variantVars, appVars,
                 documents, dLoading, dError, dFetches, deletes>>

\* delete ... .eq("id", d).eq("user_id", u)
StoreDelete(d, u) ==
  IF store[d].present /\ store[d].owner = u
  THEN [store EXCEPT ![d] = NoRow]
  ELSE store

\* the delete answers (lines 103-116)
deleteResponse(r, ok) ==
  /\ page = "dashboard"
  /\ r \in deletes
  /\ deletes' = deletes \ {r}
  /\ store' = IF ok THEN StoreDelete(r.doc, r.usr) ELSE store
  /\ documents' = IF ok THEN documents \ {r.doc} ELSE documents
  /\ dError' = IF ok THEN dError ELSE DbErrorMessage
  /\ deletingDocId' = None
  /\ UNCHANGED <<now, page, redirect, documentId, user, textVars, titleVars,
                 flagVars, asyncVars, viewVars, variantVars, appVars, dLoading,
                 dIsConfirmModalOpen, dFetches>>

DeleteResponse == \E r \in deletes, ok \in BOOLEAN : deleteResponse(r, ok)

\* the session ends while the dashboard is shown (handleSignOut, lines
\* 124-127, or expiry): the fetchDocuments effect returns at line 27
dashSignOut ==
  /\ page = "dashboard"
  /\ user # None
  /\ user' = None
  /\ UNCHANGED <<now, store, page, redirect, documentId, textVars, titleVars,
                 flagVars, asyncVars, viewVars, dashVars, variantVars, appVars>>

NextDashboard ==
  \/ DashFetchResponse
  \/ DeleteClick
  \/ confirmDeleteAction
  \/ cancelDeleteAction
  \/ DeleteResponse
  \/ dashSignOut

SpecDashboard == InitDashboard /\ [][NextDashboard]_vars

\* --------------------------------------------------------------- the clock
\* time passes until instant t
Advance(t) ==
  /\ t > now
  /\ now' = t
  /\ UNCHANGED <<store, page, redirect, documentId, user, textVars, titleVars,
                 flagVars, asyncVars, viewVars, dashVars, variantVars, appVars>>

AdvanceTime == \E t \in Instants : Advance(t)

\* time passes within the first fade delay of the run
AdvanceShort == \E t \in Instants : t < timeout /\ Advance(t)

\* ------------------------------------------- editor variant: direct title save
\* The EditorPage that follows ViewerPage in src/pages/viewer/[id].tsx (lines
\* 139-529) saves the title with its own update (saveTitleToDb) and has no
\* debounced save.  It is modelled on the editor's state variables with page
\* "titleEditor"; its saveStatus starts as "idle" (line 228).

\* setTimeout(() => setSaveStatus("idle"), 2000) arms a reset (line 353)
armReset(rs) == rs \cup {[due |-> now + IdleResetDelay, live |-> TRUE]}

\* a hard load of the page: state after the first render (lines 216-231)
InitVariant ==
  /\ now = 0
  /\ store \in [DocIds -> Rows \cup {NoRow, ForeignRow}]
  /\ page = "titleEditor"
  /\ redirect = None
  /\ documentId = None
  /\ user \in Users
  /\ blocks = <<>>
  /\ editorState = createEmpty({})
  /\ initialContent = <<>>
  /\ persistentContent = <<>>
  /\ title = <<>>
  /\ isEditable = TRUE
  /\ loading = TRUE
  /\ error = None
  /\ saveStatus = "idle"
  /\ isTitleEditing = FALSE
  /\ originalTitle = <<>>
  /\ publishing = FALSE
  /\ isConfirmModalOpen = FALSE
  /\ decayDue = {}
  /\ saveTimers = {}
  /\ fetches = {}
  /\ saves = <<>>
  /\ publishes = {}
  /\ vTitle = <<>>
  /\ vContent = <<>>
  /\ vLoading = TRUE
  /\ vError = None
  /\ vFetches = {}
  /\ vShown = None
  /\ DashboardIdle
  /\ titleWrites = <<>>
  /\ statusResets = {}
  /\ AppIdle

\* the main return of the variant is reached (render guards, lines 437-450)
VariantShown ==
  /\ page = "titleEditor"
  /\ ~loading
  /\ ~(error # None /\ ~isTitleEditing)

\* the data-fetching effect of the variant up to its await (lines 234-254)
fetchDocumentVariant(d, u) ==
  IF d = None \/ u = None
  THEN /\ loading' = IF d # None THEN FALSE ELSE loading
       /\ UNCHANGED <<saveStatus, error, fetches>>
  ELSE /\ loading' = TRUE
       /\ error' = None
       /\ saveStatus' = "idle"
       /\ fetches' = fetches \cup {[doc |-> d, usr |-> u, live |-> TRUE,
                                    row |-> SelectOwned(d, u)]}

\* router.query.id becomes available after the first render (line 213)
RouterReadyVariant ==
  /\ page = "titleEditor"
  /\ documentId = None
  /\ \E d \in DocIds :
       /\ documentId' = d
       /\ fetchDocumentVariant(d, user)
  /\ UNCHANGED <<now, store, page, redirect, user, textVars, titleVars,
                 isEditable, publishing, isConfirmModalOpen, decayDue,
                 saveTimers, saves, publishes, viewVars, dashVars,
                 variantVars, appVars>>

\* the session ends while the variant is mounted (dependency user?.id, line
\* 284)
SignOutVariant ==
  /\ page = "titleEditor"
  /\ user # None
  /\ user' = None
  /\ fetchDocumentVariant(documentId, None)
  /\ UNCHANGED <<now, store, page, redirect, documentId, textVars, titleVars,
                 isEditable, publishing, isConfirmModalOpen, decayDue,
                 saveTimers, saves, publishes, viewVars, dashVars,
                 variantVars, appVars>>

\* the select of the variant answers (lines 256-279): no redirect, the row's
\* is_editable is adopted as it is
fetchResponseVariant(f, outcome, data) ==
  LET adopt == outcome = "ok" /\ f.live
      fetchedTitle == IF data.title = <<>> THEN Untitled ELSE data.title
  IN
  /\ page = "titleEditor"
  /\ f \in fetches
  /\ (outcome = "ok") => data.present
  /\ (outcome = "PGRST116") => ~data.present
  /\ fetches' = fetches \ {f}
  /\ title' = IF adopt THEN fetchedTitle ELSE title
  /\ originalTitle' = IF adopt THEN fetchedTitle ELSE originalTitle
  /\ persistentContent' = IF adopt THEN data.content ELSE persistentContent
  /\ isEditable' = IF adopt THEN data.is_editable ELSE isEditable
  /\ error' = IF f.live /\ outcome = "PGRST116"
              THEN "Document not found or access denied."
              ELSE IF f.live /\ outcome = "dberror"
              THEN DbErrorMessage
              ELSE error
  /\ loading' = IF f.live THEN FALSE ELSE loading
  /\ UNCHANGED <<envVars, blocks, editorState, initialContent, isTitleEditing,
                 saveStatus, publishing, isConfirmModalOpen, decayDue,
                 saveTimers, saves, publishes, viewVars, dashVars,
                 variantVars, appVars>>

FetchResponseVariant ==
  \E f \in fetches, outcome \in {"ok", "PGRST116", "dberror"} :
    \E data \in FetchReads(f) : fetchResponseVariant(f, outcome, data)

\* handleTitleClick of the variant (lines 401-406): the h1 is rendered
handleTitleClickVariant ==
  /\ VariantShown /\ ~isTitleEditing
  /\ IF isEditable
     THEN /\ originalTitle' = title
          /\ isTitleEditing' = TRUE
     ELSE UNCHANGED <<originalTitle, isTitleEditing>>
  /\ UNCHANGED <<envVars, textVars, title, flagVars, asyncVars, viewVars,
                 dashVars, variantVars, appVars>>

\* handleTitleInputChange of the variant (lines 416-418)
handleTitleInputChangeVariant(newTitle) ==
  /\ VariantShown /\ isTitleEditing
  /\ title' = newTitle
  /\ UNCHANGED <<envVars, textVars, isTitleEditing, originalTitle, flagVars,
                 asyncVars, viewVars, dashVars, variantVars, appVars>>

TitleInputVariant ==
  \E newTitle \in TitleInputs : handleTitleInputChangeVariant(newTitle)

\* an answer handler that leaves the typed title in place when the write failed
saveTitleResponseKeep(i) ==
  LET w == titleWrites[i]
      ok == w.answer = "ok"
  IN
  /\ page = "titleEditor"
  /\ i \in DOMAIN titleWrites
  /\ w.answer # "pending"
  /\ titleWrites' = SeqRemove(titleWrites, i)
  /\ saveStatus' = IF ~w.live THEN saveStatus
                   ELSE IF ok THEN "saved" ELSE "error"
  /\ originalTitle' = IF w.live /\ ok THEN w.title ELSE originalTitle
  /\ statusResets' = IF w.live /\ ok THEN armReset(statusResets)
                     ELSE statusResets
  /\ error' = IF w.live /\ ~ok THEN "Failed to save title." ELSE error
  /\ title' = title
  /\ isTitleEditing' = IF w.live THEN FALSE ELSE isTitleEditing
  /\ UNCHANGED <<envVars, textVars, isEditable, loading, publishing,
                 isConfirmModalOpen, asyncVars, viewVars, dashVars, appVars>>

\* saveTitleToDb up to its await (lines 332-346), called with newTitle on the
\* values of the render whose handler called it
saveTitleToDb(newTitle) ==
  IF documentId = None \/ user = None \/ ~isEditable
       \/ newTitle = originalTitle
  THEN /\ isTitleEditing' = FALSE
       /\ UNCHANGED <<saveStatus, error, titleWrites>>
  ELSE /\ Len(titleWrites) < MaxInFlight
       /\ saveStatus' = "saving"
       /\ error' = None
       /\ titleWrites' = Append(titleWrites,
                                [doc |-> documentId, usr |-> user,
                                 title |-> newTitle,
                                 baseline |-> originalTitle,
                                 live |-> TRUE, answer |-> "pending"])
       /\ UNCHANGED isTitleEditing

\* handleTitleKeyDown of the variant (lines 420-429)
handleTitleKeyDownVariant(key) ==
  /\ VariantShown /\ isTitleEditing
  /\ IF key = "Enter"
     THEN /\ saveTitleToDb(titleOrUntitled(title))
          /\ UNCHANGED title
     ELSE /\ title' = originalTitle
          /\ isTitleEditing' = FALSE
          /\ UNCHANGED <<saveStatus, error, titleWrites>>
  /\ UNCHANGED <<envVars, textVars, originalTitle, isEditable, loading,
                 publishing, isConfirmModalOpen, asyncVars, viewVars,
                 dashVars, appVars, statusResets>>

TitleKeyDownVariant ==
  \E key \in {"Enter", "Escape"} : handleTitleKeyDownVariant(key)

\* handleTitleBlur of the variant (lines 431-434)
handleTitleBlurVariant ==
  /\ VariantShown /\ isTitleEditing
  /\ saveTitleToDb(titleOrUntitled(title))
  /\ UNCHANGED <<envVars, textVars, title, originalTitle, isEditable, loading,
                 publishing, isConfirmModalOpen, asyncVars, viewVars,
                 dashVars, appVars, statusResets>>

\* the store executes update({ title }).eq("id").eq("user_id") (lines
\* 342-346) or fails to
titleStoreAnswer(i, ok) ==
  /\ i \in DOMAIN titleWrites
  /\ titleWrites[i].answer = "pending"
  /\ store' = IF ok
              THEN StoreUpdate(titleWrites[i].doc, titleWrites[i].usr,
                               [title |-> titleWrites[i].title])
              ELSE store
  /\ titleWrites' = [titleWrites EXCEPT
                       ![i].answer = IF ok THEN "ok" ELSE "failed"]
  /\ UNCHANGED <<now, page, redirect, documentId, user, textVars, titleVars,
                 flagVars, asyncVars, viewVars, dashVars, appVars, statusResets>>

TitleStoreAnswer ==
  \E i \in DOMAIN titleWrites, ok \in BOOLEAN : titleStoreAnswer(i, ok)

\* saveTitleToDb after its await (lines 348-361)
saveTitleResponse(i) ==
  LET w == titleWrites[i]
      ok == w.answer = "ok"
  IN
  /\ page = "titleEditor"
  /\ i \in DOMAIN titleWrites
  /\ w.answer # "pending"
  /\ titleWrites' = SeqRemove(titleWrites, i)
  /\ saveStatus' = IF ~w.live THEN saveStatus
                   ELSE IF ok THEN "saved" ELSE "error"
  /\ originalTitle' = IF w.live /\ ok THEN w.title ELSE originalTitle
  /\ statusResets' = IF w.live /\ ok THEN armReset(statusResets)
                     ELSE statusResets
  /\ error' = IF w.live /\ ~ok THEN "Failed to save title." ELSE error
  /\ title' = IF w.live /\ ~ok THEN w.baseline ELSE title
  /\ isTitleEditing' = IF w.live THEN FALSE ELSE isTitleEditing
  /\ UNCHANGED <<envVars, textVars, isEditable, loading, publishing,
                 isConfirmModalOpen, asyncVars, viewVars, dashVars, appVars>>

SaveTitleResponse == \E i \in DOMAIN titleWrites : saveTitleResponse(i)

\* a reset timer fires (line 353)
statusResetFire(r) ==
  /\ r \in statusResets
  /\ now >= r.due
  /\ statusResets' = statusResets \ {r}
  /\ saveStatus' = IF r.live THEN "idle" ELSE saveStatus
  /\ UNCHANGED <<envVars, textVars, titleVars, isEditable, loading, error,
                 publishing, isConfirmModalOpen, asyncVars, viewVars,
                 dashVars, appVars, titleWrites>>

StatusResetFire == \E r \in statusResets : statusResetFire(r)

\* time passes until an armed reset is due
AdvanceReset ==
  \E r \in statusResets :
    /\ r.due <= MaxResets * IdleResetDelay
    /\ Advance(r.due)

\* the user leaves the variant (dashboard link, line 462): its requests and
\* timers keep running without a component
LeaveVariant ==
  /\ page = "titleEditor"
  /\ page' = "away"
  /\ fetches' = DetachReq(fetches)
  /\ titleWrites' = DetachSeq(titleWrites)
  /\ statusResets' = DetachReq(statusResets)
  /\ UNCHANGED <<now, store, redirect, documentId, user, textVars, titleVars,
                 flagVars, decayDue, saveTimers, saves, publishes, viewVars,
                 dashVars, appVars>>

NextVariant ==
  \/ RouterReadyVariant
  \/ SignOutVariant
  \/ FetchResponseVariant
  \/ handleTitleClickVariant
  \/ TitleInputVariant
  \/ TitleKeyDownVariant
  \/ handleTitleBlurVariant
  \/ TitleStoreAnswer
  \/ SaveTitleResponse
  \/ StatusResetFire
  \/ AdvanceReset
  \/ LeaveVariant

SpecVariant == InitVariant /\ [][NextVariant]_vars

\* ------------------------------------------------------- _app: route guard
\* AppContent (src/unnamed/part_001 lines 16-50).  router.pathname is held as
\* its sequence of path segments: "/" is <<>>, "/editor/[id]" is
\* <<"editor", "[id]">>.
publicRoutes == {<<>>}
authRoutes == {<<"auth">>}
protectedRoutes == {<<"dashboard">>, <<"editor">>}

\* the pages of the application
Routes == {<<>>, <<"auth">>, <<"dashboard">>, <<"editor", "[id]">>,
           <<"viewer", "[id]">>}

\* String.prototype.startsWith on path segments
startsWith(path, route) ==
  Len(route) <= Len(path) /\ SubSeq(path, 1, Len(route)) = route

isAuthRoute(path) == path \in authRoutes
isProtectedRoute(path) == \E route \in protectedRoutes : startsWith(path, route)

\* a guard that does not wait for the authentication state
routeGuardEager(u, l, path) ==
  IF u = None /\ isProtectedRoute(path) THEN <<"auth">>
  ELSE IF u # None /\ isAuthRoute(path) THEN <<"dashboard">>
  ELSE None

\* the body of the guard effect (lines 25-41): the route it pushes, or None
routeGuard(u, l, path) ==
  IF l THEN None
  ELSE IF u = None /\ isProtectedRoute(path) THEN <<"auth">>
  ELSE IF u # None /\ isAuthRoute(path) THEN <<"dashboard">>
  ELSE None

\* the guard effect runs after a render in which user, loading or router
\* changed (dependencies, line 42); pending is the navigation still under way
runGuard(u, l, path, pending) ==
  LET target == routeGuard(u, l, path)
  IN
  /\ (target # None) => Len(guardLog) < MaxPushes
  /\ pushed' = IF target # None THEN target ELSE pending
  /\ guardLog' = IF target # None
                 THEN Append(guardLog, [from |-> path, to |-> target,
                                        loading |-> l, usr |-> u])
                 ELSE guardLog

\* everything the pages hold, which the guard does not touch
pageVars == <<now, store, page, redirect, documentId, textVars, titleVars,
              flagVars, asyncVars, viewVars, dashVars, variantVars>>

\* a hard load of any route: AuthProvider has not resolved the session yet
\* and the guard effect of the first render has returned at line 26
InitApp ==
  /\ now = 0
  /\ store = [d \in DocIds |-> NoRow]
  /\ page = "away"
  /\ redirect = None
  /\ documentId = None
  /\ user = None
  /\ blocks = <<>>
  /\ editorState = createEmpty({})
  /\ initialContent = <<>>
  /\ persistentContent = <<>>
  /\ title = <<>>
  /\ isEditable = TRUE
  /\ loading = TRUE
  /\ error = None
  /\ saveStatus = "saved"
  /\ isTitleEditing = FALSE
  /\ originalTitle = <<>>
  /\ publishing = FALSE
  /\ isConfirmModalOpen = FALSE
  /\ decayDue = {}
  /\ saveTimers = {}
  /\ fetches = {}
  /\ saves = <<>>
  /\ publishes = {}
  /\ vTitle = <<>>
  /\ vContent = <<>>
  /\ vLoading = TRUE
  /\ vError = None
  /\ vFetches = {}
  /\ vShown = None
  /\ DashboardIdle
  /\ titleWrites = <<>>
  /\ statusResets = {}
  /\ pathname \in Routes
  /\ authLoading = TRUE
  /\ pushed = None
  /\ guardLog = <<>>

\* AuthProvider finishes loading the session: loading becomes false and user
\* is the signed-in user or null
AuthLoaded ==
  /\ authLoading
  /\ authLoading' = FALSE
  /\ \E u \in Users \cup {None} :
       /\ user' = u
       /\ runGuard(u, FALSE, pathname, pushed)
  /\ UNCHANGED <<pageVars, pathname>>

\* the session changes after loading: sign-in or sign-out
AuthChanged ==
  /\ ~authLoading
  /\ \E u \in (Users \cup {None}) \ {user} :
       /\ user' = u
       /\ runGuard(u, authLoading, pathname, pushed)
  /\ UNCHANGED <<pageVars, pathname, authLoading>>

\* the visitor follows a link or enters an address: the navigation replaces
\* one still under way, and the guard runs on the new route
RouteChange ==
  /\ \E path \in Routes \ {pathname} :
       /\ pathname' = path
       /\ runGuard(user, authLoading, path, None)
  /\ UNCHANGED <<pageVars, user, authLoading>>

\* a router.push of the guard completes and the guard runs on the new route
PushComplete ==
  /\ pushed # None
  /\ pathname' = pushed
  /\ runGuard(user, authLoading, pushed, None)
  /\ UNCHANGED <<pageVars, user, authLoading>>

NextApp ==
  \/ AuthLoaded
  \/ AuthChanged
  \/ RouteChange
  \/ PushComplete

SpecApp == InitApp /\ [][NextApp]_vars

Next ==
  \/ RouterReady
  \/ SignIn
  \/ SignOut
  \/ FetchResponse
  \/ TypeEdit
  \/ SplitEdit
  \/ DeleteEdit
  \/ SelectEdit
  \/ DecayTick
  \/ SaveFire
  \/ SaveResponse
  \/ handleTitleClick
  \/ TitleInput
  \/ handleTitleBlur
  \/ handleTitleEscape
  \/ handlePublish
  \/ confirmPublishAction
  \/ cancelPublishAction
  \/ PublishResponse
  \/ ViewerFetchResponse
  \/ RedirectComplete
  \/ NavigateAway
  \/ DashFetchResponse
  \/ DeleteClick
  \/ confirmDeleteAction
  \/ cancelDeleteAction
  \/ DeleteResponse
  \/ dashSignOut
  \/ NextVariant
  \/ NextApp
  \/ AdvanceTime

Spec == Init /\ [][Next]_vars

\* --------------------------------------------------------- specifications
\* The whole system is Spec.  The specifications below run the same actions
\* on one part of it each:
\*   SpecInsert  a signed-in editor session whose body edits only insert
\*   SpecText    a signed-in editor session: all body edits, decay, saves
\*   SpecSave    a signed-in editor session shorter than the fade delay:
\*               typing, title editing, saving, publishing, sign-out, leaving
\*   SpecNav     a hard load of either page: loading, redirects, sign-in and
\*               sign-out, typing, saving, leaving
\*   SpecDecay   a signed-in editor session: all body edits and decay, no
\*               save timer fires
\*   SpecView    a hard load of either page: loading, redirects, sign-in and
\*               sign-out, publishing, leaving
\*   SpecTitle   a signed-in editor session: typing, title editing and
\*               committing, saving
\*   SpecFrame   a signed-in editor session: typing, decay, title editing,
\*               saving, publishing
\*   SpecSettle  a signed-in editor session whose saves all succeed
\*   SpecDashboard  a hard load of the dashboard: listing and deleting
InitEditor == Init /\ page = "editor" /\ user \in Users

NextInsert ==
  \/ RouterReady
  \/ FetchResponse
  \/ TypeEdit
  \/ SplitEdit
  \/ DecayTick
  \/ SaveFire
  \/ SaveResponse
  \/ AdvanceTime

SpecInsert == InitEditor /\ [][NextInsert]_vars

NextText ==
  \/ RouterReady
  \/ FetchResponse
  \/ TypeEdit
  \/ SplitEdit
  \/ DeleteEdit
  \/ SelectEdit
  \/ DecayTick
  \/ SaveFire
  \/ SaveResponse
  \/ AdvanceTime

SpecText == InitEditor /\ [][NextText]_vars

NextSave ==
  \/ RouterReady
  \/ SignOut
  \/ FetchResponse
  \/ TypeEdit
  \/ SaveFire
  \/ SaveResponse
  \/ handleTitleClick
  \/ TitleInput
  \/ handleTitleBlur
  \/ handleTitleEscape
  \/ handlePublish
  \/ confirmPublishAction
  \/ cancelPublishAction
  \/ PublishResponse
  \/ RedirectComplete
  \/ NavigateAway
  \/ AdvanceShort

SpecSave == InitEditor /\ [][NextSave]_vars

NextNav ==
  \/ RouterReady
  \/ SignIn
  \/ SignOut
  \/ FetchResponse
  \/ ViewerFetchResponse
  \/ TypeEdit
  \/ SaveFire
  \/ SaveResponse
  \/ RedirectComplete
  \/ NavigateAway
  \/ AdvanceShort

SpecNav == Init /\ [][NextNav]_vars

NextDecay ==
  \/ RouterReady
  \/ FetchResponse
  \/ TypeEdit
  \/ SplitEdit
  \/ DeleteEdit
  \/ SelectEdit
  \/ DecayTick
  \/ AdvanceTime

SpecDecay == InitEditor /\ [][NextDecay]_vars

NextView ==
  \/ RouterReady
  \/ SignIn
  \/ SignOut
  \/ FetchResponse
  \/ ViewerFetchResponse
  \/ handlePublish
  \/ confirmPublishAction
  \/ cancelPublishAction
  \/ PublishResponse
  \/ RedirectComplete
  \/ NavigateAway

SpecView == Init /\ [][NextView]_vars

\* ------------------------------------------------------------------ claims
\* the saves of the mounted editor that are in flight
LiveSaves == {i \in DOMAIN saves : saves[i].live}

\* C1: content non-shrinkage.  Under insert-only body edits and decay ticks
\* the length of persistentContent (CombinedContent) never decreases.
C1_NonShrinkage ==
  [][(TypeEdit \/ SplitEdit \/ DecayTick)
       => Len(persistentContent') >= Len(persistentContent)]_vars

\* C2: stale save suppression.  The answer of a save that a later-dispatched
\* save has already overtaken changes neither saveStatus nor originalTitle.
C2_StaleSaveSuppressed ==
  [][\A i \in DOMAIN saves, ok \in BOOLEAN :
       (saveDocumentResponse(i, ok) /\ saves[i].live /\ saves[i].late)
         => (saveStatus' = saveStatus /\ originalTitle' = originalTitle)]_vars

\* C3: publish is terminal for writes.  Once the publish of this session has
\* succeeded (isEditable is false), no content/title update is dispatched.
C3_NoWriteAfterPublish ==
  [][(page = "editor" /\ ~isEditable) => Len(saves') <= Len(saves)]_vars

\* C4: publish is blocked while saving.  The is_editable update is never
\* dispatched while a save of the session is in flight or saveStatus is
\* "saving".
C4_NoPublishWhileSaving ==
  [][(confirmPublishAction /\ publishes' # publishes)
       => (saveStatus # "saving" /\ LiveSaves = {})]_vars

\* C5: debounce coalescing.  A burst of calls to the debounced save, each
\* less than the debounce delay after the previous one, gives one write with
\* the arguments of the last call: when a timer fires and issues its write,
\* no other timer armed within the debounce delay of it is pending that was
\* armed by a later call or that will issue a write of its own.
C5_Coalescing ==
  [][\A t \in saveTimers :
       (saveDocumentFire(t) /\ Len(saves') > Len(saves))
         => \A o \in saveTimers \ {t} :
              \/ o.due - t.due >= DebounceWait
              \/ t.due - o.due >= DebounceWait
              \/ (~saveGuard(o) /\ ~(o.cur /\ ~t.cur))]_vars

\* C6: save guards.  A debounce timer of the mounted editor that fires while
\* the document is not editable, or the document id or the user is unknown,
\* issues no write and leaves saveStatus unchanged.
C6_SaveGuards ==
  [][\A t \in saveTimers :
       (/\ saveDocumentFire(t)
        /\ page = "editor"
        /\ (~isEditable \/ documentId = None \/ user = None))
         => (saves' = saves /\ saveStatus' = saveStatus)]_vars

\* C7: save errors are recoverable.  When a save write of the presented
\* editor fails, saveStatus becomes "error" and the editor is still presented.
C7_SaveErrorRecoverable ==
  [][\A i \in DOMAIN saves :
       (saveDocumentResponse(i, FALSE) /\ saves[i].live /\ EditorShown)
         => (saveStatus' = "error" /\ EditorShown')]_vars

\* C8: editor-side presentation exclusivity.  While the redirect to the viewer
\* that the editor's load issued for a published document is pending, the
\* editor is not presented in edit mode and no save is scheduled.
C8_EditorExclusive ==
  (page = "editor" /\ redirect = "viewer")
    => (~(EditorShown /\ isEditable) /\ saveTimers = {})

\* C9: viewer-side presentation exclusivity.  The viewer's load of an editable
\* document issues the redirect to the editor and stores nothing of the row;
\* the document whose title and content the viewer holds is never editable.
C9_ViewerExclusive ==
  /\ [](vShown # None => ~store[vShown].is_editable)
  /\ [][\A f \in vFetches :
          (viewerFetchResponse(f, "ok") /\ store[f.doc].is_editable)
            => (/\ redirect' = "editor"
                /\ vTitle' = vTitle
                /\ vContent' = vContent
                /\ vShown' = vShown)]_vars

\* C9 witness: the viewer has loaded an editable document, the redirect to
\* the editor is pending and the read-only presentation holds nothing of it
C9_Witness ==
  /\ page = "viewer"
  /\ redirect = "editor"
  /\ store["d1"].is_editable
  /\ store["d1"].title # <<>>
  /\ vFetches = {}
  /\ ~vLoading
  /\ vShown = None
  /\ vTitle = <<>>
  /\ vContent = <<>>

\* C10: session-end teardown.  No debounce timer armed by an editor that has
\* since unmounted fires, and no decay tick runs without a mounted editor.
C10_Teardown ==
  [][/\ \A t \in saveTimers : saveDocumentFire(t) => t.live
     /\ DecayTick => page = "editor"]_vars

\* handleEditorChange is called by the editor
BodyEdit == TypeEdit \/ SplitEdit \/ DeleteEdit \/ SelectEdit

\* C11: no-op idempotence.  A user edit leaves unchanged the entry (text and
\* lastModified) of every tracked block whose text in the new editor state
\* equals its tracked text.
C11_NoOpIdempotence ==
  [][BodyEdit =>
       \A i \in DOMAIN editorState' :
         LET k == editorState'[i].key IN
         (BlockHas(blocks, k) /\ BlockGet(blocks, k).text = editorState'[i].text)
           => (BlockHas(blocks', k) /\ BlockGet(blocks', k) = BlockGet(blocks, k))]_vars

\* C11 witness: the second block was edited half a second after the first,
\* whose entry still carries the time of its own edit
C11_Witness ==
  /\ Len(blocks) = 2
  /\ blocks[1].text # <<>> /\ blocks[1].ts = 0
  /\ blocks[2].text # <<>> /\ blocks[2].ts = DebounceWait

\* C12: tracker update.  After a user edit at time now every block of the new
\* editor state that was unseen, or whose text differs from its tracked text,
\* has the entry (newText, now); over edits and decay ticks the lastModified
\* of a block never decreases.
C12_TrackerUpdate ==
  [][/\ BodyEdit =>
          \A i \in DOMAIN editorState' :
            LET k == editorState'[i].key IN
            (~BlockHas(blocks, k)
               \/ BlockGet(blocks, k).text # editorState'[i].text)
              => /\ BlockHas(blocks', k)
                 /\ BlockGet(blocks', k) =
                      [key |-> k, text |-> editorState'[i].text, ts |-> now]
     /\ (BodyEdit \/ DecayTick) =>
          \A i \in DOMAIN blocks :
            BlockHas(blocks', blocks[i].key)
              => BlockGet(blocks', blocks[i].key).ts >= blocks[i].ts]_vars

\* C12 witness: the first block, tracked since the start, was changed again
\* after the fade delay and carries the time of that edit
C12_Witness ==
  /\ Len(blocks) = 2
  /\ blocks[2].ts = 0
  /\ blocks[1].text # <<>> /\ blocks[1].ts = timeout + DebounceWait

\* C13: decay rule.  A decay tick at time now empties the text of exactly the
\* tracked blocks whose text is non-empty and whose age is at least 120000 ms,
\* and leaves every timestamp and every other text unchanged.
C13_DecayRule ==
  [][DecayTick =>
       /\ Len(blocks') = Len(blocks)
       /\ \A i \in DOMAIN blocks :
            /\ blocks'[i].key = blocks[i].key
            /\ blocks'[i].ts = blocks[i].ts
            /\ blocks'[i].text =
                 IF blocks[i].text # <<>> /\ now - blocks[i].ts >= 120000
                 THEN <<>> ELSE blocks[i].text]_vars

\* C13 witness: both blocks were typed in; decay has cleared the first, which
\* reached the fade delay, and not the second, which is younger
C13_Witness ==
  /\ initialContent = <<>>
  /\ persistentContent = <<"a", NL, "a">>
  /\ now = timeout
  /\ Len(blocks) = 2
  /\ blocks[1].text = <<>> /\ blocks[1].ts = 0
  /\ blocks[2].text = <<"a">> /\ blocks[2].ts = DebounceWait

\* C14: decay idempotence.  A decay tick in which every block that has
\* reached the fade delay is already empty changes no block: it does not take
\* the branch that rebuilds the editor state and replaces the block map.
C14_DecayIdempotent ==
  [][(DecayTick
        /\ \A i \in DOMAIN blocks :
             now - blocks[i].ts >= timeout => blocks[i].text = <<>>)
       => ~shouldUpdate(blocks, now)]_vars

\* C15: decay monotonicity.  The entry of a tracked block whose text is empty
\* (cleared by decay) is unchanged by every decay tick and every user edit,
\* except a user edit that gives that block a new text, which stamps it.
C15_DecayMonotone ==
  [][(BodyEdit \/ DecayTick) =>
       \A i \in DOMAIN blocks :
         (blocks[i].text = <<>> /\ BlockHas(blocks', blocks[i].key))
           => LET b == BlockGet(blocks', blocks[i].key) IN
              \/ b = blocks[i]
              \/ /\ BodyEdit
                 /\ b.text # <<>>
                 /\ b.ts = now
                 /\ \E j \in DOMAIN editorState' :
                      /\ editorState'[j].key = b.key
                      /\ editorState'[j].text = b.text]_vars

\* C15 witness: decay cleared the first block; a later edit of the second
\* block and the ticks since then left the first block's entry as it was
C15_Witness ==
  /\ initialContent = <<>>
  /\ now = timeout + DebounceWait
  /\ Len(blocks) = 2
  /\ blocks[1].text = <<>> /\ blocks[1].ts = 0
  /\ blocks[2].text = <<"a">> /\ blocks[2].ts = timeout + DebounceWait
  /\ persistentContent = <<NL, "a">>

\* C16: separator correctness.  The combined content an edit computes from
\* the persisted content p and the visible text v is p, newline, v when both
\* are non-empty, and the other string when either is empty.
C16_Separator ==
  [][BodyEdit =>
       LET p == initialContent
           v == getPlainText(editorState', <<"\n">>)
       IN persistentContent' =
            IF p # <<>> /\ v # <<>> THEN p \o <<"\n">> \o v
            ELSE IF v = <<>> THEN p ELSE v]_vars

\* C16 witness: persisted content and visible text are both non-empty and
\* the combined content joins them with one newline
C16_Witness ==
  /\ initialContent = <<"p">>
  /\ getPlainText(editorState, <<NL>>) = <<"a">>
  /\ persistentContent = <<"p", NL, "a">>

\* C17: decay is a view-only effect.  A decay tick leaves the combined
\* content, the persisted content, the title and saveStatus unchanged and
\* schedules no save.
C17_DecayViewOnly ==
  [][DecayTick =>
       UNCHANGED <<persistentContent, initialContent, title, originalTitle,
                   saveStatus, saveTimers, saves, store>>]_vars

\* C17 witness: decay has cleared the only block and the combined content
\* still holds the text typed into it
C17_Witness ==
  /\ initialContent = <<"p">>
  /\ persistentContent = <<"p", NL, "a">>
  /\ now >= timeout
  /\ Len(blocks) = 1
  /\ blocks[1].text = <<>> /\ blocks[1].ts = 0
  /\ editorState[1].text = <<>>

\* C18: session start is empty.  When the editor completes the load of a
\* document, the tracked block map is empty and the visual buffer is one
\* empty block: nothing is carried over from what was tracked before.
C18_LoadStartsEmpty ==
  [][\A f \in fetches :
       \A data \in FetchReads(f) :
         (fetchResponse(f, "ok", data) /\ f.live /\ data.is_editable)
           => /\ blocks' = <<>>
              /\ Len(editorState') = 1
              /\ editorState'[1].text = <<>>]_vars

\* C19: publish is one-way.  In a session whose publish has succeeded
\* (isEditable is false) no step sets isEditable back to true, and no write
\* turns is_editable of a published row back to true.
C19_PublishOneWay ==
  [][/\ (page = "editor" /\ page' = "editor" /\ ~isEditable) => ~isEditable'
     /\ \A d \in DocIds :
          (store[d].present /\ ~store[d].is_editable)
            => ~store'[d].is_editable]_vars

\* C20: publish requires confirmation.  The is_editable update is dispatched
\* only by the confirm button of the prompt, the prompt is opened only by
\* handlePublish, and cancelling dispatches nothing and leaves isEditable,
\* publishing and saveStatus unchanged.
C20_PublishConfirmed ==
  [][/\ (\E p \in publishes' : p \notin publishes /\ p.live)
          => (isConfirmModalOpen /\ confirmPublishAction)
     /\ (~isConfirmModalOpen /\ isConfirmModalOpen') => handlePublish
     /\ cancelPublishAction
          => UNCHANGED <<publishes, store, isEditable, publishing,
                         saveStatus>>]_vars

\* C20 witness: the prompt was affirmed and the is_editable update is in
\* flight
C20_Witness ==
  /\ page = "editor"
  /\ publishing
  /\ ~isConfirmModalOpen
  /\ publishes = {[doc |-> "d1", usr |-> "u1", live |-> TRUE]}
  /\ store["d1"].is_editable

\* C21: cancelling a title edit with Escape restores the title and causes no
\* store write of the cancelled edit: once Escape has been handled, every
\* debounce timer still armed on the current debounced function that passes
\* the save guards would write the restored title, so no keystroke of the
\* cancelled edit is ever sent.
C21_TitleCancel ==
  [][handleTitleEscape
       => \A t \in saveTimers' :
            (t.cur /\ t.live /\ saveGuard(t))
              => titleOrUntitled(t.title) = title']_vars

\* title editing and committing with body edits and saves: no cancel, no
\* publish, no change of the signed-in user
NextTitle ==
  \/ RouterReady
  \/ FetchResponse
  \/ TypeEdit
  \/ SaveFire
  \/ SaveResponse
  \/ handleTitleClick
  \/ TitleInput
  \/ handleTitleBlur
  \/ AdvanceShort

SpecTitle == InitEditor /\ [][NextTitle]_vars

\* C22: committing a changed title (Enter or blur) goes through the debounced
\* save of the body edits. Every title keystroke on an editable document arms
\* the debounce timer with the typed title and the current combined content;
\* the commit shows the trimmed title (or "Untitled Document"), leaves the
\* timers armed, and the armed save would write exactly the displayed title
\* with the current combined content; when the timer fires with its guards
\* satisfied, that write is issued with the displayed title trimmed.
C22_TitleCommit ==
  [][/\ (TitleInput /\ isEditable)
          => \E t \in saveTimers' :
               /\ t.cur /\ t.live
               /\ t.title = title'
               /\ t.content = persistentContent
               /\ t.due = now + DebounceWait
     /\ handleTitleBlur
          => /\ title' = titleOrUntitled(title)
             /\ saveTimers' = saveTimers
             /\ \A t \in saveTimers :
                  (t.cur /\ t.live)
                    => /\ titleOrUntitled(t.title) = title'
                       /\ t.content = persistentContent
     /\ \A t \in saveTimers :
          (saveDocumentFire(t) /\ t.cur /\ t.live /\ saveGuard(t))
            => /\ Len(saves') = Len(saves) + 1
               /\ saves'[Len(saves')].title = titleOrUntitled(title)
               /\ saves'[Len(saves')].content = persistentContent]_vars

\* a changed title has been committed and its save is still armed
C22_Witness ==
  /\ page = "editor" /\ ~isTitleEditing
  /\ title = <<"t">>
  /\ \E t \in saveTimers :
       t.cur /\ t.live /\ saveGuard(t) /\ t.title = <<"t", " ">>

\* C23: save status protocol. A debounce timer of the mounted page that fires
\* with its guards satisfied sets saveStatus to "saving" in the step that
\* issues the write; the successful answer of a save sets saveStatus to
\* "saved" and makes the written title the baseline originalTitle; a failed
\* answer sets saveStatus to "error" with the message "Failed to save
\* document." and leaves the baseline unchanged.
C23_SaveStatusProtocol ==
  [][/\ \A t \in saveTimers :
          (saveDocumentFire(t) /\ t.live /\ saveGuard(t))
            => /\ saveStatus' = "saving"
               /\ Len(saves') = Len(saves) + 1
               /\ saves'[Len(saves')].doc = t.doc
               /\ saves'[Len(saves')].content = t.content
     /\ \A i \in DOMAIN saves :
          (saveDocumentResponse(i, TRUE) /\ saves[i].live)
            => /\ saveStatus' = "saved"
               /\ originalTitle' = saves[i].title
               /\ store'[saves[i].doc].title = saves[i].title
     /\ \A i \in DOMAIN saves :
          (saveDocumentResponse(i, FALSE) /\ saves[i].live)
            => /\ saveStatus' = "error"
               /\ error' = "Failed to save document."
               /\ originalTitle' = originalTitle
               /\ store' = store]_vars

\* a save of a changed title has failed and the baseline is still the old one
C23_Witness ==
  /\ page = "editor"
  /\ saveStatus = "error"
  /\ error = "Failed to save document."
  /\ title = <<"t">>
  /\ originalTitle = Untitled
  /\ saves = <<>>

\* the messages a failed load leaves in error
LoadErrors == {"Document not found or access denied.", DbErrorMessage}

\* C24: load outcome. The answer of a load sets the title and the persisted
\* content from the record only when it is a successful fetch of an editable
\* document owned by the caller; a failed fetch ends with loading false and
\* an error, and a missing record and a record of another owner give the same
\* message "Document not found or access denied."; while the page shows a
\* load error, no save or publish write is issued and the error is not
\* cleared unless a new load is started.
C24_LoadOutcome ==
  [][/\ \A f \in fetches, outcome \in {"ok", "PGRST116", "dberror"} :
          \A data \in FetchReads(f) :
            (fetchResponse(f, outcome, data) /\ f.live)
              => /\ (title' # title \/ initialContent' # initialContent)
                      => /\ outcome = "ok"
                         /\ data.is_editable
                         /\ data.owner = f.usr
                         /\ initialContent' = data.content
                         /\ ~loading'
                 /\ (outcome # "ok")
                      => /\ ~loading'
                         /\ error' \in LoadErrors
                 /\ (~store[f.doc].present
                       \/ (~f.row.present /\ store[f.doc].owner # f.usr))
                      => /\ outcome # "ok"
                         /\ outcome = "PGRST116"
                              => error' =
                                   "Document not found or access denied."
     /\ (page = "editor" /\ page' = "editor" /\ ~loading /\ error \in LoadErrors
           /\ fetches' \subseteq fetches)
          => /\ Len(saves') <= Len(saves)
             /\ publishes' \subseteq publishes
             /\ error' # None]_vars

\* C25: unauthenticated sessions touch nothing: in a step of the editor taken
\* while no user is signed in, no fetch is started and no save write and no
\* publish write is issued to the store.
C25_UnauthenticatedIdle ==
  [][(page = "editor" /\ page' = "editor" /\ user = None /\ user' = None)
       => /\ fetches' \subseteq fetches
          /\ Len(saves') <= Len(saves)
          /\ publishes' \subseteq publishes]_vars

\* C26: decay timeliness: the decay passes run at a fixed 1 second cadence
\* regardless of user activity, so a body edit never moves the time at which
\* the next decay pass is due.
C26_DecayTimeliness ==
  [][BodyEdit => decayDue' = decayDue]_vars

\* body edits, decay passes, title edits, saves and publish in one session
NextFrame ==
  \/ RouterReady
  \/ FetchResponse
  \/ TypeEdit
  \/ DecayTick
  \/ SaveFire
  \/ SaveResponse
  \/ handleTitleClick
  \/ TitleInput
  \/ handleTitleBlur
  \/ handlePublish
  \/ confirmPublishAction
  \/ PublishResponse
  \/ AdvanceTime

SpecFrame == InitEditor /\ [][NextFrame]_vars

\* C27: the persisted-content baseline initialContent is stable: body edits,
\* title edits, decay passes and publish leave it unchanged, and while the
\* editor stays mounted it changes only in the answer of a load or in the
\* successful answer of a save.
C27_PersistedStable ==
  [][/\ (\/ BodyEdit
         \/ handleTitleClick \/ TitleInput \/ handleTitleBlur
         \/ handleTitleEscape
         \/ DecayTick
         \/ handlePublish \/ confirmPublishAction \/ cancelPublishAction
         \/ PublishResponse)
          => initialContent' = initialContent
     /\ (page = "editor" /\ page' = "editor"
           /\ initialContent' # initialContent)
          => \/ FetchResponse
             \/ \E i \in DOMAIN saves : saveDocumentResponse(i, TRUE)]_vars

\* a body edit has been saved and a decay pass has cleared the block, and the
\* baseline is still the content of the load
C27_Witness ==
  /\ page = "editor"
  /\ initialContent = <<"p">>
  /\ persistentContent = <<"p", NL, "a">>
  /\ store["d1"].content = persistentContent
  /\ \E i \in DOMAIN blocks :
       blocks[i].text = <<>> /\ now - blocks[i].ts >= timeout

\* C28: delete requires confirmation. A delete is issued to the store only by
\* confirmDeleteAction on the open prompt and it targets the document held by
\* the prompt; the prompt is opened only by the delete button of a listed
\* document and holds that document, and while it stays open it never comes
\* to hold another document; the store loses a row only through the answer
\* of such a delete, and only that row; cancelling issues no delete and
\* leaves the store and the document list unchanged.
C28_DeleteConfirmed ==
  [][/\ \A r \in deletes' :
          r \notin deletes
            => /\ confirmDeleteAction
               /\ dIsConfirmModalOpen
               /\ r.doc = deletingDocId
     /\ (~dIsConfirmModalOpen /\ dIsConfirmModalOpen')
          => /\ deletingDocId' \in documents
             /\ handleDeleteClick(deletingDocId')
     /\ (dIsConfirmModalOpen /\ dIsConfirmModalOpen')
          => deletingDocId' \in {deletingDocId, None}
     /\ \A d \in DashDocs :
          store'[d] # store[d]
            => \E r \in deletes :
                 /\ r.doc = d
                 /\ r \notin deletes'
                 /\ \A e \in DashDocs \ {d} : store'[e] = store[e]
     /\ cancelDeleteAction
          => UNCHANGED <<deletes, store, documents>>]_vars

\* both documents are listed and the confirmed delete of d1 is in flight
C28_Witness ==
  /\ page = "dashboard"
  /\ documents = {"d1", "d2"}
  /\ ~dIsConfirmModalOpen
  /\ deletes = {[doc |-> "d1", usr |-> "u1"]}
  /\ store["d1"].present /\ store["d2"].present

\* the fade delay the landing page states, in ms ("text fades after 60
\* seconds")
LandingFadeDelay == 60000

\* C29: landing-page promise: text fades 60 seconds after it was last
\* modified: a decay pass leaves no text in a block that was last modified 60
\* seconds ago or earlier.
C29_LandingPromise ==
  [][DecayTick
       => \A i \in DOMAIN blocks :
            now - blocks[i].ts >= LandingFadeDelay
              => blocks'[i].text = <<>>]_vars

\* a save answers with success
SaveSuccess == \E i \in DOMAIN saves : saveDocumentResponse(i, TRUE)

\* sessions of an editable document in which every save write succeeds: body
\* edits, title edits and commits, debounce timers and save answers
NextSettle ==
  \/ RouterReady
  \/ FetchResponse
  \/ TypeEdit
  \/ handleTitleClick
  \/ TitleInput
  \/ handleTitleBlur
  \/ SaveFire
  \/ SaveSuccess
  \/ AdvanceShort

SpecSettle == InitEditor /\ [][NextSettle]_vars

\* C30: eventual store consistency: when every save write has succeeded and
\* the editor of an editable document is at rest (no input in progress, no
\* debounce timer armed, no request in flight), the store's content is the
\* latest combined content and the store's title is the displayed title,
\* whatever the order in which overlapping saves were answered.
C30_StoreConsistent ==
  (/\ EditorShown
   /\ isEditable /\ ~isTitleEditing
   /\ documentId # None
   /\ store[documentId].present /\ store[documentId].is_editable
   /\ store[documentId].owner = user
   /\ saveTimers = {} /\ saves = <<>> /\ fetches = {})
    => /\ store[documentId].content = persistentContent
       /\ titleOrUntitled(store[documentId].title) = title

\* C31: in-flight implies saving: in every state of the editor in which a
\* save write of the mounted page is in flight, saveStatus is "saving".
C31_InFlightSaving ==
  (page = "editor" /\ \E i \in DOMAIN saves : saves[i].live)
    => saveStatus = "saving"

\* p is a prefix of s
IsPrefix(p, s) == Len(p) <= Len(s) /\ SubSeq(s, 1, Len(p)) = p

\* typing and deleting in the body, decay passes, title edits and commits,
\* and saves
NextPrefix ==
  \/ RouterReady
  \/ FetchResponse
  \/ TypeEdit
  \/ DeleteEdit
  \/ DecayTick
  \/ SaveFire
  \/ SaveResponse
  \/ handleTitleClick
  \/ TitleInput
  \/ handleTitleBlur
  \/ AdvanceTime

SpecPrefix == InitEditor /\ [][NextPrefix]_vars

\* C32: persisted content is never overwritten: under any sequence of body
\* edits, title edits and decay passes, every content value the editor has
\* scheduled for saving, has in flight or has written to the store has
\* initialContent, the content loaded for the document, as a prefix.
C32_PersistedPrefix ==
  page = "editor"
    => /\ \A t \in saveTimers : t.live => IsPrefix(initialContent, t.content)
       /\ \A i \in DOMAIN saves :
            saves[i].live => IsPrefix(initialContent, saves[i].content)
       /\ (documentId # None /\ ~loading /\ store[documentId].present)
            => IsPrefix(initialContent, store[documentId].content)

\* the typed text was saved, then deleted, and the write of the deletion,
\* which is the loaded content alone, is in flight
C32_Witness ==
  /\ page = "editor"
  /\ initialContent = <<"p">>
  /\ store["d1"].content = <<"p", NL, "a">>
  /\ \E i \in DOMAIN saves : saves[i].live /\ saves[i].content = <<"p">>

\* C33: edit derives and schedules CombinedContent: right after every body
\* edit persistentContent is initialContent followed by the plain text of the
\* new editor state (blocks joined by newline), with a newline between the
\* two when both are non-empty, and on an editable document the current
\* debounce timer is armed with exactly that value and the current title.
C33_EditSchedules ==
  [][BodyEdit
       => LET v == getPlainText(editorState', <<NL>>)
              combined == IF initialContent # <<>> /\ v # <<>>
                          THEN initialContent \o <<NL>> \o v
                          ELSE initialContent \o v
          IN /\ persistentContent' = combined
             /\ isEditable
                  => \E t \in saveTimers' :
                       /\ t.cur /\ t.live
                       /\ t.content = combined
                       /\ t.title = title
                       /\ t.due = now + DebounceWait]_vars

\* a character typed after loaded content is scheduled behind it
C33_Witness ==
  /\ page = "editor"
  /\ initialContent = <<"p">>
  /\ persistentContent = <<"p", NL, "a">>
  /\ \E t \in saveTimers :
       t.cur /\ t.content = <<"p", NL, "a">> /\ t.title = <<"s">>

\* C34: immediate unsaved indication: a body edit made while the document is
\* editable and saveStatus is "saved" whose combined content differs from the
\* persisted content initialContent sets saveStatus to "saving" in the same
\* step, in which no write is issued; a body edit whose combined content
\* equals the persisted content leaves saveStatus unchanged.
C34_UnsavedIndication ==
  [][BodyEdit
       => /\ (isEditable /\ saveStatus = "saved"
                /\ persistentContent' # initialContent)
               => (saveStatus' = "saving" /\ saves' = saves)
          /\ (persistentContent' = initialContent)
               => saveStatus' = saveStatus]_vars

\* the status shows "saving" while the save of the edit is still only armed
C34_Witness ==
  /\ page = "editor"
  /\ saveStatus = "saving"
  /\ saves = <<>>
  /\ persistentContent # initialContent
  /\ store["d1"].content = initialContent
  /\ \E t \in saveTimers : t.cur /\ now < t.due

\* C35: saving is never stuck: there is no reachable state of the mounted
\* editor with saveStatus "saving", no pending debounce timer and no save
\* write in flight.
C35_SavingNotStuck ==
  (page = "editor" /\ saveStatus = "saving")
    => (saveTimers # {} \/ saves # <<>>)

\* C36: single pending save: at every moment of a session of the mounted
\* editor at most one debounce timer is pending, also across re-creations of
\* the debounced save function.
C36_SinglePendingSave ==
  page = "editor" => Cardinality({t \in saveTimers : t.live}) <= 1

\* C37: publish failure and single publish: in the mounted editor the
\* publishing flag is true exactly while a publish write is in flight, at most
\* one publish write is in flight, and the answer to a failed publish write
\* leaves isEditable true and the stored row editable and resets the flag.
C37_PublishFlag ==
  /\ [](page = "editor"
          => /\ publishing <=> (\E p \in publishes : p.live)
             /\ Cardinality(publishes) <= 1)
  /\ [][(page = "editor" /\ publishes' # publishes
           /\ publishes' \subseteq publishes
           /\ error' = "Failed to publish document.")
          => /\ isEditable /\ isEditable'
             /\ store' = store
             /\ ~publishing']_vars

\* a publish write has failed: the flag is reset and the document is editable
C37_Witness ==
  /\ page = "editor"
  /\ error = "Failed to publish document."
  /\ isEditable /\ ~publishing /\ publishes = {}
  /\ store["d1"].present /\ store["d1"].is_editable

\* C38: title-save variant rollback: in the editor variant that saves the
\* title directly, the answer to a failed title write sets saveStatus to
\* "error", puts the displayed title back to the baseline the edit started
\* from and leaves title-edit mode; committing (Enter or blur) a title equal
\* to the baseline issues no write and only leaves title-edit mode.
C38_TitleRollback ==
  [][/\ \A i \in DOMAIN titleWrites :
          (/\ page = "titleEditor"
           /\ titleWrites[i].live /\ titleWrites[i].answer = "failed"
           /\ titleWrites' = SeqRemove(titleWrites, i))
            => /\ saveStatus' = "error"
               /\ title' = titleWrites[i].baseline
               /\ ~isTitleEditing'
               /\ store' = store
     /\ (/\ handleTitleBlurVariant \/ handleTitleKeyDownVariant("Enter")
         /\ titleOrUntitled(title) = originalTitle)
          => /\ ~isTitleEditing'
             /\ UNCHANGED <<titleWrites, store, title, originalTitle,
                            saveStatus, error>>]_vars

\* a title write has failed after the user typed a different title: the
\* baseline is displayed again, outside title-edit mode
C38_Witness ==
  /\ page = "titleEditor"
  /\ saveStatus = "error"
  /\ error = "Failed to save title."
  /\ ~isTitleEditing
  /\ titleWrites = <<>>
  /\ title = <<"s">> /\ originalTitle = <<"s">>
  /\ store["d1"].title = <<"s">>

\* C39: route guard: once the authentication state has loaded, a visitor
\* without a user on /dashboard or /editor has a redirect to /auth under way
\* and a signed-in user on /auth has a redirect to /dashboard under way; no
\* redirect is issued while the authentication state is loading, and none is
\* ever issued from the viewer route.
C39_RouteGuard ==
  /\ (~authLoading /\ user = None
        /\ pathname \in {<<"dashboard">>, <<"editor", "[id]">>})
       => pushed = <<"auth">>
  /\ (~authLoading /\ user # None /\ pathname = <<"auth">>)
       => pushed = <<"dashboard">>
  /\ authLoading => (pushed = None /\ guardLog = <<>>)
  /\ \A i \in DOMAIN guardLog :
       /\ ~guardLog[i].loading
       /\ guardLog[i].from # <<"viewer", "[id]">>
       /\ guardLog[i].to = IF guardLog[i].usr = None THEN <<"auth">>
                           ELSE <<"dashboard">>

\* a visitor was sent from the editor to /auth, signed in there and was sent
\* on to /dashboard
C39_Witness ==
  /\ ~authLoading /\ user # None /\ pathname = <<"dashboard">>
  /\ pushed = None
  /\ Len(guardLog) = 2
  /\ guardLog[1].from = <<"editor", "[id]">> /\ guardLog[1].to = <<"auth">>
  /\ guardLog[2].from = <<"auth">> /\ guardLog[2].to = <<"dashboard">>

====
